---- MODULE Spec2Model ----
(***************************************************************************)
(* Huddle-Deploy-Bot: the deployment orchestration engine of deploy.js.    *)
(*                                                                         *)
(* The single async function mainLoop is modelled as one process whose     *)
(* position `pc` is the await (or statement) it is about to execute.       *)
(* deployToken and sendToRandomAddresses are inlined at their call sites,  *)
(* one action per await.  Every rejected await, low balance or throw inside *)
(* the slot's try block ends in the catch of lines 185-187.                *)
(*                                                                         *)
(* Time: `clock` is the wall clock in seconds, measured from the start of  *)
(* the current cycle (the code only compares differences of clock reads,   *)
(* so LoopTop shifts the epoch to the instant it reads) and saturated at   *)
(* Cap, which lies beyond every instant the code compares against.         *)
(***************************************************************************)
EXTENDS Integers, Sequences, FiniteSets, TLC

VARIABLES
    pc,           \* position of mainLoop, or "exited" once the process is gone
    exitCode,     \* -1 while running, else the argument of process.exit
    fatal,        \* the error that rejected mainLoop(), "none" if none
    clock,        \* wall clock, seconds since the epoch of the current cycle
    now,          \* const now (line 171)
    nextRun,      \* const nextRun (line 192), -1 before the first one
    countdown,    \* the remaining time the status box shows in this wait, <<>> if none yet
    sourceValid,  \* whether token.sol compiles (fixed for the process)
    addresses,    \* the recipient pool (line 19)
    wIdx,         \* index in wallets of the wallet of the outer for loop
    names,        \* const names (line 176)
    i,            \* let i of the inner for loop (0-based)
    balance,      \* const balance of deployToken (gwei), -1 when not read
    compileCalls, \* calls of solc.compile in the process, saturated
    submits,      \* contract-creation transactions submitted in the current slot
    deployed,     \* the current slot's deployToken returned a contract
    failKind,     \* why the current slot failed, "none" if it did not
    slotLogs,     \* outcome log lines (183 or 186) written for the current slot
    todo,         \* the targets of the for-of loop not yet iterated (pool positions)
    sentTo,       \* pool positions a transfer was issued to in this distribution run
    nXfer,        \* transfer calls issued in this distribution run
    visited,      \* wallets whose batch was begun in this cycle, in order
    attempts,     \* per wallet, deployment slots begun in this cycle
    nOk,          \* slots recorded as deployed in this cycle
    nFail,        \* slots recorded as failed in this cycle
    nDist,        \* distribution runs begun in this cycle
    cycleXfers,   \* transfer calls issued in this cycle
    lastXfer,     \* how the latest transfer of this distribution run ended
    nXferFail,    \* transfers of this distribution run that were logged as errors
    inflight,     \* chain operations issued and not yet settled
    lastWait,     \* seconds the pacing delay since the latest slot took, -1 if none
    log,          \* outcome events the latest step wrote to the log box
    phaseAtExit,  \* the scheduler state in which the process exited, "none" before
    impl,         \* which task manager runs: "cpp", "rust" or "haskell"; "none" in deploy.js
    tasks,        \* TaskManager::tasks, the list in memory
    next_id,      \* TaskManager::next_id
    file,         \* the tasks file on disk
    lastOp,       \* the latest operation called on the manager and its argument
    stale,        \* saves that failed since the tasks file was last written
    draw,         \* the value of Math.random() at line 156, in steps of 1/RandomSteps
    amount        \* const amount of line 156

vars == <<pc, exitCode, fatal, clock, now, nextRun, countdown, sourceValid, addresses,
          wIdx, names, i, balance, compileCalls, submits, deployed, failKind,
          slotLogs, todo, sentTo, nXfer, visited, attempts, nOk, nFail, nDist,
          cycleXfers, lastXfer, nXferFail, inflight, lastWait, log, phaseAtExit,
          impl, tasks, next_id, file, lastOp, stale, draw, amount>>

(***************************************************************************)
(* Bounds of the model and constants of the program                        *)
(***************************************************************************)
NumWallets == 2        \* wallets.length
MainPool == 2          \* addresses.length in the scheduler specification
MaxDelay == 1          \* longest extra latency of one await, seconds
PeriodSlack == 3       \* how far the period exceeds the shortest possible cycle
CompileCap == 2        \* compileCalls saturates here

BatchSize == 5         \* generateUniqueNames(5)
SampleSize == 7        \* slice(0, 7)
MinBalance == 1000     \* parseEther("0.000001"), in gwei
Pacing == 3            \* wait(3000)
Pause == 1             \* wait(1000)

MaxPool == SampleSize + 1   \* largest pool of the sampling specification

\* 24 * 60 * 60 * 1000 ms on the model's clock: as in a deployment, longer than
\* the shortest cycle (NumWallets * BatchSize pacing delays).
Period == NumWallets * BatchSize * Pacing + PeriodSlack
Cap == Period + Pacing

Min(a, b) == IF a < b THEN a ELSE b

Delays == 0..MaxDelay
Advance(d) == Min(clock + d, Cap)

\* Balances a query can return, around the threshold of line 124.
Balances == {0, MinBalance - 1, MinBalance, MinBalance + 1}

wallets == 1..NumWallets

(***************************************************************************)
(* Collaborators                                                           *)
(***************************************************************************)
\* utils/randomName.js: `count` specs with pairwise distinct symbols (a spec is
\* modelled by its symbol), or the GenerationExhausted failure.
generateUniqueNames(count) ==
    { [ok |-> TRUE, specs |-> [k \in 1..count |-> k]],
      [ok |-> FALSE, specs |-> <<>>] }

\* All orders of the elements of S.
RECURSIVE Orders(_)
Orders(S) ==
    IF S = {} THEN {<<>>}
    ELSE UNION { { <<x>> \o p : p \in Orders(S \ {x}) } : x \in S }

\* [...addresses].sort(() => 0.5 - Math.random()): a copy of the pool in an order
\* the random comparator decides; an element is named by its position in the pool.
Shuffles(pool) == Orders(DOMAIN pool)

\* Mutant of Targets: the slice keeps one element too many.
TargetsOffByOne(shuffled) == SubSeq(shuffled, 1, Min(SampleSize + 1, Len(shuffled)))

\* .slice(0, 7)
Targets(shuffled) == SubSeq(shuffled, 1, Min(SampleSize, Len(shuffled)))

\* Mutant of BalanceTooLow: a balance equal to the threshold is refused too.
BalanceTooLowInclusive(b) == b <= MinBalance

\* balance < ethers.parseEther("0.000001")
BalanceTooLow(b) == b < MinBalance

\* Mutant of NextRunAt: the period is one second short.
NextRunAtShort(start) == start + Period - 1

\* new Date(now.getTime() + 24 * 60 * 60 * 1000)
NextRunAt(start) == start + Period

\* Mutant of StillWaiting: the instant of the next run still counts as waiting.
StillWaitingInclusive(t, next) == t <= next

\* new Date() < nextRun
StillWaiting(t, next) == t < next

\* nextRun - new Date()
Remaining(next, t) == next - t


Phase ==
    CASE pc \in {"calc_next", "wait_check", "pause"} -> "WAITING"
      [] pc \in {"rejected", "exited"} -> "STOPPED"
      [] OTHER -> "RUNNING-CYCLE"

InSlot == pc \in {"compile", "balance", "submit", "confirm", "send",
                  "xfer_submit", "xfer_wait", "pacing"}

(***************************************************************************)
(* State after module evaluation, at the call mainLoop() of line 208       *)
(***************************************************************************)
cycleVars == <<visited, attempts, nOk, nFail, nDist>>
slotVars == <<balance, submits, deployed, failKind, slotLogs>>
sendVars == <<todo, sentTo, nXfer, lastXfer, nXferFail>>
timeVars == <<clock, now, nextRun, countdown>>
procVars == <<exitCode, phaseAtExit, fatal, sourceValid, addresses, compileCalls>>
loopVars == <<wIdx, names, i>>
taskVars == <<impl, tasks, next_id, file, lastOp, stale>>
amountVars == <<draw, amount>>
deployVars == <<pc, cycleVars, slotVars, sendVars, timeVars, procVars, loopVars,
                cycleXfers, inflight, lastWait, log, amountVars>>

\* No amount computed.
NotDrawn == [units |-> 0, decimals |-> 0]

NoAmount == draw = 0 /\ amount = NotDrawn

\* No tasks file on disk.
Absent == [state |-> "absent", tasks |-> <<>>]

\* No operation called yet on the manager.
NoOp == [op |-> "none", id |-> 0, found |-> FALSE, before |-> 0, saved |-> "none"]

\* deploy.js has no task manager.
NoTaskManager ==
    /\ impl = "none"
    /\ tasks = <<>>
    /\ next_id = 1
    /\ file = Absent
    /\ lastOp = NoOp
    /\ stale = 0

InitCommon ==
    /\ exitCode = -1
    /\ phaseAtExit = "none"
    /\ cycleXfers = 0
    /\ lastXfer = "none"
    /\ nXferFail = 0
    /\ inflight = {}
    /\ lastWait = -1
    /\ log = <<>>
    /\ fatal = "none"
    /\ now = -1
    /\ nextRun = -1
    /\ countdown = <<>>
    /\ sourceValid \in BOOLEAN
    /\ wIdx = 0
    /\ names = <<>>
    /\ i = 0
    /\ balance = -1
    /\ compileCalls = 0
    /\ submits = 0
    /\ failKind = "none"
    /\ slotLogs = 0
    /\ todo = <<>>
    /\ sentTo = {}
    /\ nXfer = 0
    /\ visited = <<>>
    /\ attempts = [w \in wallets |-> 0]
    /\ nOk = 0
    /\ nFail = 0
    /\ nDist = 0

Init ==
    /\ InitCommon
    /\ pc = "loop_top"
    /\ clock = 0
    /\ deployed = FALSE
    /\ addresses = [k \in 1..MainPool |-> k]
    /\ NoTaskManager
    /\ NoAmount

(***************************************************************************)
(* mainLoop                                                                *)
(***************************************************************************)
\* A chain operation of the wallet of the current iteration.
Op(name) == [op |-> name, wallet |-> wIdx]

\* Mutant of Settle: the call is not awaited, so it is still pending when the next
\* operation is issued.
SettleNotAwaited(done, next) == inflight \cup next

\* await: the awaited operation `done` has settled; the operations of `next` are
\* issued by the code that runs up to the next await.
Settle(done, next) == (inflight \ {done}) \cup next

\* A call that is made without an await before it: nothing settles first.
Issue(next) == inflight \cup next

\* wait(ms): the timer fires after the delay, or later
WaitTime(secs, d) == secs + d

\* line 183: log([i + 1] Deployed NAME (SYMBOL) at ...)
LogDeployed(w, k) == <<[level |-> "info", kind |-> "slot", about |-> <<w, k>>]>>

\* line 186: log(Failed to deploy NAME: ...)
LogSlotFailed(w, k) == <<[level |-> "error", kind |-> "slot", about |-> <<w, k>>]>>

\* line 160: log(Sent AMOUNT tokens to TO)
LogSent(to) == <<[level |-> "info", kind |-> "transfer", about |-> <<to>>]>>

\* Mutant of LogTransferError: the catch block is empty.
LogTransferErrorSilent(to) == <<>>

\* line 162: log(Error sending to TO: ...)
LogTransferError(to) == <<[level |-> "error", kind |-> "transfer", about |-> <<to>>]>>

\* line 209: log(Fatal error: ...)
LogFatal == <<[level |-> "error", kind |-> "fatal", about |-> <<>>]>>

\* line 170-172: while (true) { const now = new Date(); ...
LoopTop ==
    /\ pc = "loop_top"
    /\ now' = clock - clock
    /\ clock' = clock - clock
    /\ countdown' = <<>>
    /\ wIdx' = 1
    /\ visited' = <<>>
    /\ attempts' = [w \in wallets |-> 0]
    /\ nOk' = 0
    /\ nFail' = 0
    /\ nDist' = 0
    /\ cycleXfers' = 0
    /\ log' = <<>>
    /\ pc' = "gen_names"
    /\ UNCHANGED <<taskVars, amountVars, nextRun, names, i, procVars, slotVars, sendVars, inflight,
                   lastWait>>

\* line 174-177: for (const wallet of wallets) { const names = generateUniqueNames(5);
\* a throw here is outside every try block and rejects mainLoop().
GenerateNames ==
    /\ pc = "gen_names"
    /\ \E r \in generateUniqueNames(BatchSize) :
         IF r.ok
         THEN /\ names' = r.specs
              /\ visited' = Append(visited, wIdx)
              /\ i' = 0
              /\ pc' = "slot"
              /\ UNCHANGED fatal
         ELSE /\ fatal' = "GenerationExhausted"
              /\ visited' = Append(visited, wIdx)
              /\ pc' = "rejected"
              /\ UNCHANGED <<names, i>>
    /\ log' = <<>>
    /\ UNCHANGED <<taskVars, amountVars, exitCode, phaseAtExit, sourceValid, addresses, compileCalls, wIdx,
                   timeVars, slotVars, sendVars, attempts, nOk, nFail, nDist,
                   cycleXfers, inflight, lastWait>>

\* Mutant of ForSlot: a pass in which a slot failed is run again at once instead
\* of being followed by the wait.
ForSlotRetryFailedPass ==
    /\ pc = "slot"
    /\ IF i < Len(names)
       THEN /\ attempts' = [attempts EXCEPT ![wIdx] = @ + 1]
            /\ balance' = -1
            /\ submits' = 0
            /\ deployed' = FALSE
            /\ failKind' = "none"
            /\ slotLogs' = 0
            /\ todo' = <<>>
            /\ sentTo' = {}
            /\ nXfer' = 0
            /\ lastXfer' = "none"
            /\ nXferFail' = 0
            /\ lastWait' = -1
            /\ pc' = "compile"
            /\ UNCHANGED wIdx
       ELSE /\ IF wIdx < NumWallets
               THEN wIdx' = wIdx + 1 /\ pc' = "gen_names"
               ELSE wIdx' = wIdx /\ pc' = IF nFail > 0 THEN "loop_top" ELSE "calc_next"
            /\ UNCHANGED <<attempts, slotVars, sendVars, lastWait>>
    /\ log' = <<>>
    /\ UNCHANGED <<taskVars, amountVars, names, i, procVars, timeVars, visited, nOk, nFail, nDist,
                   cycleXfers, inflight>>

\* line 179-180 and 174: the two loop heads.  i < names.length enters the try block
\* of slot i; otherwise the next wallet, or the end of the pass over the wallets.
ForSlot ==
    /\ pc = "slot"
    /\ IF i < Len(names)
       THEN /\ attempts' = [attempts EXCEPT ![wIdx] = @ + 1]
            /\ balance' = -1
            /\ submits' = 0
            /\ deployed' = FALSE
            /\ failKind' = "none"
            /\ slotLogs' = 0
            /\ todo' = <<>>
            /\ sentTo' = {}
            /\ nXfer' = 0
            /\ lastXfer' = "none"
            /\ nXferFail' = 0
            /\ lastWait' = -1
            /\ pc' = "compile"
            /\ UNCHANGED wIdx
       ELSE /\ IF wIdx < NumWallets
               THEN wIdx' = wIdx + 1 /\ pc' = "gen_names"
               ELSE wIdx' = wIdx /\ pc' = "calc_next"
            /\ UNCHANGED <<attempts, slotVars, sendVars, lastWait>>
    /\ log' = <<>>
    /\ UNCHANGED <<taskVars, amountVars, names, i, procVars, timeVars, visited, nOk, nFail, nDist,
                   cycleXfers, inflight>>

\* Mutant of Catch: the try block encloses the loops, so a failed slot ends the pass.
CatchEndsPass(kind) ==
    /\ failKind' = kind
    /\ nFail' = nFail + 1
    /\ slotLogs' = slotLogs + 1
    /\ log' = LogSlotFailed(wIdx, i)
    /\ pc' = "calc_next"

\* Mutant of Catch: the failure is logged and the slot goes on to the distribution.
CatchThenDistribute(kind) ==
    /\ failKind' = kind
    /\ nFail' = nFail + 1
    /\ slotLogs' = slotLogs + 1
    /\ log' = LogSlotFailed(wIdx, i)
    /\ pc' = "send"

\* line 185-187: catch (err) { log(Failed to deploy ...) }, then line 188.
Catch(kind) ==
    /\ failKind' = kind
    /\ nFail' = nFail + 1
    /\ slotLogs' = slotLogs + 1
    /\ log' = LogSlotFailed(wIdx, i)
    /\ pc' = "pacing"

\* line 118 (103-114): const { abi, bytecode } = compileContract();
\* with a source that does not compile, line 112 reads a property of undefined.
\* Line 122 then issues the balance query.
CompileContract ==
    /\ pc = "compile"
    /\ compileCalls' = Min(compileCalls + 1, CompileCap)
    /\ IF sourceValid
       THEN /\ pc' = "balance"
            /\ inflight' = Issue({Op("getBalance")})
            /\ log' = <<>>
            /\ UNCHANGED <<failKind, nFail, slotLogs>>
       ELSE /\ Catch("compile")
            /\ UNCHANGED inflight
    /\ UNCHANGED <<taskVars, amountVars, exitCode, phaseAtExit, fatal, sourceValid, addresses, loopVars,
                   timeVars, balance, submits, deployed, sendVars, visited,
                   attempts, nOk, nDist, cycleXfers, lastWait>>

\* line 122-126: await provider.getBalance(...); throw if below the threshold;
\* line 132 issues the deployment.
GetBalance ==
    /\ pc = "balance"
    /\ \E d \in Delays : clock' = Advance(d)
    /\ \/ /\ Catch("transport")
          /\ inflight' = Settle(Op("getBalance"), {})
          /\ UNCHANGED balance
       \/ \E b \in Balances :
            /\ balance' = b
            /\ IF BalanceTooLow(b)
               THEN /\ Catch("funds")
                    /\ inflight' = Settle(Op("getBalance"), {})
               ELSE /\ pc' = "submit"
                    /\ inflight' = Settle(Op("getBalance"), {Op("deploy")})
                    /\ log' = <<>>
                    /\ UNCHANGED <<failKind, nFail, slotLogs>>
    /\ UNCHANGED <<taskVars, amountVars, procVars, loopVars, now, nextRun, countdown, submits, deployed,
                   sendVars, visited, attempts, nOk, nDist, cycleXfers, lastWait>>

\* Mutant of FactoryDeploy: a rejected submission is submitted again.
FactoryDeployRetries ==
    /\ pc = "submit"
    /\ \E d \in Delays : clock' = Advance(d)
    /\ submits' = submits + 1
    /\ \/ /\ pc' = "confirm"
          /\ inflight' = Settle(Op("deploy"), {Op("waitForDeployment")})
       \/ /\ pc' = "submit"
          /\ inflight' = Settle(Op("deploy"), {Op("deploy")})
    /\ log' = <<>>
    /\ UNCHANGED <<failKind, nFail, slotLogs>>
    /\ UNCHANGED <<taskVars, amountVars, procVars, loopVars, now, nextRun, countdown, balance, deployed,
                   sendVars, visited, attempts, nOk, nDist, cycleXfers, lastWait>>

\* line 130-135: contract = await factory.deploy(name, symbol, initialSupply);
\* line 141 issues the confirmation wait.
FactoryDeploy ==
    /\ pc = "submit"
    /\ \E d \in Delays : clock' = Advance(d)
    /\ submits' = submits + 1
    /\ \/ /\ pc' = "confirm"
          /\ inflight' = Settle(Op("deploy"), {Op("waitForDeployment")})
          /\ log' = <<>>
          /\ UNCHANGED <<failKind, nFail, slotLogs>>
       \/ /\ Catch("submit")
          /\ inflight' = Settle(Op("deploy"), {})
    /\ UNCHANGED <<taskVars, amountVars, procVars, loopVars, now, nextRun, countdown, balance, deployed,
                   sendVars, visited, attempts, nOk, nDist, cycleXfers, lastWait>>

\* line 140-149 and 183: await contract.waitForDeployment(); return the contract;
\* log the deployed slot.
WaitForDeployment ==
    /\ pc = "confirm"
    /\ \E d \in Delays : clock' = Advance(d)
    /\ inflight' = Settle(Op("waitForDeployment"), {})
    /\ \/ /\ deployed' = TRUE
          /\ nOk' = nOk + 1
          /\ slotLogs' = slotLogs + 1
          /\ log' = LogDeployed(wIdx, i)
          /\ pc' = "send"
          /\ UNCHANGED <<failKind, nFail>>
       \/ /\ Catch("confirm")
          /\ UNCHANGED <<deployed, nOk>>
    /\ UNCHANGED <<taskVars, amountVars, procVars, loopVars, now, nextRun, countdown, balance, submits,
                   sendVars, visited, attempts, nDist, cycleXfers, lastWait>>

\* Mutant of NextTarget: the loop over the targets is left after one iteration.
NextTargetOnce(rest) == "pacing"

\* line 155: for (const to of targets)
NextTarget(rest) == IF rest = <<>> THEN "pacing" ELSE "xfer_submit"

\* Mutant of AfterTransferError: a failed transfer ends the distribution.
AfterTransferErrorStop(rest) == "pacing"

\* line 161-163: catch (err) { log(...) } and the loop goes on
AfterTransferError(rest) == NextTarget(rest)

\* The transfer that line 158 issues when the loop goes on to another target.
NextTransfer(at) == IF at = "xfer_submit" THEN {Op("transfer")} ELSE {}

\* Mutant of SendSample: the pool itself is sorted, not a copy of it.
SendSampleInPlace ==
    /\ pc = "send"
    /\ nDist' = nDist + 1
    /\ \E shuffled \in Shuffles(addresses) :
         /\ addresses' = [k \in DOMAIN addresses |-> addresses[shuffled[k]]]
         /\ todo' = Targets(shuffled)
    /\ sentTo' = {}
    /\ nXfer' = 0
    /\ lastXfer' = "none"
    /\ nXferFail' = 0
    /\ log' = <<>>
    /\ pc' = NextTarget(todo')
    /\ inflight' = Issue(NextTransfer(pc'))
    /\ UNCHANGED <<taskVars, amountVars, exitCode, phaseAtExit, fatal, sourceValid, compileCalls,
                   loopVars, timeVars, slotVars, visited, attempts, nOk, nFail,
                   cycleXfers, lastWait>>

\* Mutant of SendSample: line 184 without its await, so the slot goes on to the
\* pacing delay and the next slot while the transfers are still to be made.
SendSampleNotAwaited ==
    /\ pc = "send"
    /\ nDist' = nDist + 1
    /\ \E shuffled \in Shuffles(addresses) : todo' = Targets(shuffled)
    /\ sentTo' = {}
    /\ nXfer' = 0
    /\ lastXfer' = "none"
    /\ nXferFail' = 0
    /\ log' = <<>>
    /\ pc' = "pacing"
    /\ inflight' = Issue(NextTransfer(NextTarget(todo')))
    /\ UNCHANGED <<taskVars, amountVars, procVars, loopVars, timeVars, slotVars, visited, attempts, nOk,
                   nFail, cycleXfers, lastWait>>

\* line 153-154: sendToRandomAddresses(contract): const targets = ...
SendSample ==
    /\ pc = "send"
    /\ nDist' = nDist + 1
    /\ \E shuffled \in Shuffles(addresses) : todo' = Targets(shuffled)
    /\ sentTo' = {}
    /\ nXfer' = 0
    /\ lastXfer' = "none"
    /\ nXferFail' = 0
    /\ log' = <<>>
    /\ pc' = NextTarget(todo')
    /\ inflight' = Issue(NextTransfer(pc'))
    /\ UNCHANGED <<taskVars, amountVars, procVars, loopVars, timeVars, slotVars, visited, attempts, nOk,
                   nFail, cycleXfers, lastWait>>

\* line 158: const tx = await contract.transfer(to, amount); a rejection is logged
\* (line 162) and the loop goes on.
TransferSubmit ==
    /\ pc = "xfer_submit"
    /\ \E d \in Delays : clock' = Advance(d)
    /\ nXfer' = nXfer + 1
    /\ cycleXfers' = cycleXfers + 1
    /\ sentTo' = sentTo \cup {Head(todo)}
    /\ \/ /\ pc' = "xfer_wait"
          /\ lastXfer' = "pending"
          /\ UNCHANGED nXferFail
          /\ log' = <<>>
          /\ inflight' = Settle(Op("transfer"), {Op("tx.wait")})
          /\ UNCHANGED todo
       \/ /\ todo' = Tail(todo)
          /\ lastXfer' = "failed"
          /\ nXferFail' = nXferFail + 1
          /\ log' = LogTransferError(Head(todo))
          /\ pc' = AfterTransferError(todo')
          /\ inflight' = Settle(Op("transfer"), NextTransfer(pc'))
    /\ UNCHANGED <<taskVars, amountVars, procVars, loopVars, now, nextRun, countdown, slotVars, visited, attempts,
                   nOk, nFail, nDist, lastWait>>

\* line 159-163: await tx.wait(); log the transfer or its error; next target.
TransferWait ==
    /\ pc = "xfer_wait"
    /\ \E d \in Delays : clock' = Advance(d)
    /\ todo' = Tail(todo)
    /\ \/ /\ lastXfer' = "ok"
          /\ UNCHANGED nXferFail
          /\ log' = LogSent(Head(todo))
          /\ pc' = NextTarget(todo')
       \/ /\ lastXfer' = "failed"
          /\ nXferFail' = nXferFail + 1
          /\ log' = LogTransferError(Head(todo))
          /\ pc' = AfterTransferError(todo')
    /\ inflight' = Settle(Op("tx.wait"), NextTransfer(pc'))
    /\ UNCHANGED <<taskVars, amountVars, procVars, loopVars, now, nextRun, countdown, slotVars, sentTo, nXfer,
                   cycleVars, cycleXfers, lastWait>>

\* Mutant of PacingWait: the delay is inside the try block, so a failed slot skips it.
PacingWaitInsideTry ==
    /\ pc = "pacing"
    /\ \E d \in Delays :
         LET t == IF failKind = "none" THEN WaitTime(Pacing, d) ELSE 0
         IN  clock' = Advance(t) /\ lastWait' = t
    /\ i' = i + 1
    /\ log' = <<>>
    /\ pc' = "slot"
    /\ UNCHANGED <<taskVars, amountVars, procVars, wIdx, names, now, nextRun, countdown, slotVars, sendVars,
                   cycleVars, cycleXfers, inflight>>

\* line 188 and 179: await wait(3000); i++
PacingWait ==
    /\ pc = "pacing"
    /\ \E d \in Delays :
         clock' = Advance(WaitTime(Pacing, d)) /\ lastWait' = WaitTime(Pacing, d)
    /\ i' = i + 1
    /\ log' = <<>>
    /\ pc' = "slot"
    /\ UNCHANGED <<taskVars, amountVars, procVars, wIdx, names, now, nextRun, countdown, slotVars, sendVars,
                   cycleVars, cycleXfers, inflight>>

\* line 192: const nextRun = new Date(now.getTime() + 24 h)
CalcNextRun ==
    /\ pc = "calc_next"
    /\ nextRun' = NextRunAt(now)
    /\ countdown' = <<>>
    /\ lastWait' = -1
    /\ log' = <<>>
    /\ pc' = "wait_check"
    /\ UNCHANGED <<taskVars, amountVars, procVars, loopVars, clock, now, slotVars, sendVars,
                   cycleVars, cycleXfers, inflight>>

\* line 193-201: while (new Date() < nextRun) {
\*   const remaining = new Date(nextRun - new Date());
\*   statusBox.setContent(... Next Run: remaining as HH:MM:SS ...); screen.render();
\* The condition and the remaining time read the clock separately, and nothing
\* bounds the time between the two readings: the second is the first or any later.
WaitCheck ==
    /\ pc = "wait_check"
    /\ IF StillWaiting(clock, nextRun)
          THEN \E t \in clock..Cap :
                 /\ clock' = t
                 /\ countdown' = <<Remaining(nextRun, t)>>
                 /\ pc' = "pause"
          ELSE /\ pc' = "loop_top"
               /\ UNCHANGED <<clock, countdown>>
    /\ log' = <<>>
    /\ UNCHANGED <<taskVars, amountVars, procVars, loopVars, now, nextRun, slotVars, sendVars,
                   cycleVars, cycleXfers, inflight, lastWait>>

\* line 202: await wait(1000)
CountdownPause ==
    /\ pc = "pause"
    /\ \E d \in Delays : clock' = Advance(WaitTime(Pause, d))
    /\ log' = <<>>
    /\ pc' = "wait_check"
    /\ UNCHANGED <<taskVars, amountVars, procVars, loopVars, now, nextRun, countdown, slotVars, sendVars,
                   cycleVars, cycleXfers, inflight, lastWait>>

\* line 208-211: mainLoop().catch(err => { log(Fatal error); process.exit(1) })
FatalCatch ==
    /\ pc = "rejected"
    /\ log' = LogFatal
    /\ exitCode' = 1
    /\ phaseAtExit' = "RUNNING-CYCLE"
    /\ pc' = "exited"
    /\ UNCHANGED <<taskVars, amountVars, fatal, sourceValid, addresses, compileCalls, loopVars, timeVars,
                   slotVars, sendVars, cycleVars, cycleXfers, inflight,
                   lastWait>>

\* The positions at which mainLoop is suspended in an await: the only ones at which
\* the event loop can run a key handler.
Awaiting == pc \in {"balance", "submit", "confirm", "xfer_submit", "xfer_wait",
                    "pacing", "pause"}

\* Mutant of Shutdown: the keys are handled during the countdown only.
ShutdownWhileWaitingOnly ==
    /\ pc = "pause"
    /\ exitCode' = 0
    /\ phaseAtExit' = Phase
    /\ log' = <<>>
    /\ pc' = "exited"
    /\ UNCHANGED <<taskVars, amountVars, fatal, sourceValid, addresses, compileCalls, loopVars, timeVars,
                   slotVars, sendVars, cycleVars, cycleXfers, inflight,
                   lastWait>>

\* line 84: screen.key(["escape", "q", "C-c"], () => process.exit(0)).  The pending
\* operations of the process die with it.
Shutdown ==
    /\ Awaiting
    /\ exitCode' = 0
    /\ phaseAtExit' = Phase
    /\ log' = <<>>
    /\ pc' = "exited"
    /\ UNCHANGED <<taskVars, amountVars, fatal, sourceValid, addresses, compileCalls, loopVars, timeVars,
                   slotVars, sendVars, cycleVars, cycleXfers, inflight,
                   lastWait>>

Step ==
    \/ LoopTop
    \/ GenerateNames
    \/ ForSlot
    \/ CompileContract
    \/ GetBalance
    \/ FactoryDeploy
    \/ WaitForDeployment
    \/ SendSample
    \/ TransferSubmit
    \/ TransferWait
    \/ PacingWait
    \/ CalcNextRun
    \/ WaitCheck
    \/ CountdownPause
    \/ FatalCatch

Next == Step \/ Shutdown

Spec == Init /\ [][Next]_vars

\* The scheduler without the shutdown key, every await eventually returning.
LiveSpec == Init /\ [][Step]_vars /\ WF_vars(Step)

TypeOK ==
    /\ pc \in {"loop_top", "gen_names", "slot", "compile", "balance", "submit",
                "confirm", "send", "xfer_submit", "xfer_wait", "pacing",
                "calc_next", "wait_check", "pause", "rejected", "exited"}
    /\ exitCode \in {-1, 0, 1}
    /\ clock \in 0..Cap
    /\ now \in {-1, 0}
    /\ i \in 0..BatchSize
    /\ balance \in Balances \cup {-1}
    /\ compileCalls \in 0..CompileCap
    /\ nOk + nFail <= NumWallets * BatchSize
    /\ lastXfer \in {"none", "pending", "ok", "failed"}
    /\ Len(log) <= 1

(***************************************************************************)
(* sendToRandomAddresses alone, for pools of every size up to MaxPool: the *)
(* process is in the slot of its first wallet whose deployment has just    *)
(* been logged (line 183), late in the cycle.                              *)
(***************************************************************************)
InitSample ==
    /\ pc = "send"
    /\ exitCode = -1
    /\ phaseAtExit = "none"
    /\ cycleXfers = 0
    /\ lastXfer = "none"
    /\ nXferFail = 0
    /\ inflight = {}
    /\ lastWait = -1
    /\ log = LogDeployed(1, 0)
    /\ fatal = "none"
    /\ clock = Cap
    /\ now = 0
    /\ nextRun = -1
    /\ countdown = <<>>
    /\ sourceValid = TRUE
    /\ \E n \in 0..MaxPool : addresses = [k \in 1..n |-> k]
    /\ wIdx = 1
    /\ names = [k \in 1..BatchSize |-> k]
    /\ i = 0
    /\ balance = MinBalance
    /\ compileCalls = 1
    /\ submits = 1
    /\ deployed = TRUE
    /\ failKind = "none"
    /\ slotLogs = 1
    /\ todo = <<>>
    /\ sentTo = {}
    /\ nXfer = 0
    /\ visited = <<1>>
    /\ attempts = [w \in wallets |-> IF w = 1 THEN 1 ELSE 0]
    /\ nOk = 1
    /\ nFail = 0
    /\ nDist = 0
    /\ NoTaskManager
    /\ NoAmount

SampleNext == SendSample \/ TransferSubmit \/ TransferWait

SampleSpec == InitSample /\ [][SampleNext]_vars

(***************************************************************************)
(* The task managers: src/work.cpp (C++), src/unnamed/part_000 (Rust,       *)
(* lines 1-284, and Haskell, lines 286-539).  One manager works on one      *)
(* tasks file; the three differ where the definitions below say so.         *)
(***************************************************************************)
MaxTasks == 3          \* longest task list of the model
MaxId == 4             \* largest id the model hands out
MaxStale == 1          \* most saves in a row that fail to open the file
FirstId == 1           \* next_id of a manager that loaded nothing

Impls == {"cpp", "rust", "haskell"}
Descriptions == {"x"}
Ids == 0..MaxId

\* An existing file without contents (the temporary file of the tests).
Empty == [state |-> "empty", tasks |-> <<>>]

\* Task { id, description, completed: false, ... }
Task(id, desc) == [id |-> id, description |-> desc, completed |-> FALSE]

IdsOf(ts) == {ts[k].id : k \in DOMAIN ts}

MaxIdOf(ts) == CHOOSE m \in IdsOf(ts) : \A n \in IdsOf(ts) : n <= m

\* Mutant of Insert: every manager appends.
InsertAtEnd(ts, t) == Append(ts, t)

\* tasks.emplace_back(...) (C++), self.tasks.push(task) (Rust),
\* task : tasks tm (Haskell)
Insert(ts, t) == IF impl = "haskell" THEN <<t>> \o ts ELSE Append(ts, t)

\* find_if / position / break: index of the first task with the id, 0 if none
FirstIndex(ts, id) ==
    LET at == {k \in DOMAIN ts : ts[k].id = id}
    IN  IF at = {} THEN 0 ELSE CHOOSE k \in at : \A j \in at : k <= j

\* Mutant of Remove: the task and everything after it are dropped.
RemoveFrom(ts, k) == SubSeq(ts, 1, k - 1)

\* tasks.erase(it) / self.tasks.remove(index) / before ++ rest
Remove(ts, k) == SubSeq(ts, 1, k - 1) \o SubSeq(ts, k + 1, Len(ts))

\* Task::to_json / derive(Serialize) / ToJSON: the JSON object of a task, the flag
\* as the JSON literal true or false
to_json(t) ==
    [id |-> t.id, description |-> t.description,
     completed |-> IF t.completed THEN "true" ELSE "false"]

\* Mutant of from_json: the completed flag is not read back.
from_jsonNotCompleted(j) == [id |-> j.id, description |-> j.description, completed |-> FALSE]

\* Task::from_json / derive(Deserialize) / FromJSON
from_json(j) ==
    [id |-> j.id, description |-> j.description, completed |-> (j.completed = "true")]

\* save_tasks / saveTasks, the file opened: it is rewritten with the array of the
\* tasks' objects, in the order of the list
save_tasks(ts) == [state |-> "json", tasks |-> [k \in DOMAIN ts |-> to_json(ts[k])]]

\* How a save can end.  The file cannot be opened for writing: the C++ manager
\* prints an error and goes on, the Rust manager returns the error after the change
\* in memory.  In the Haskell manager writeFile throws before a new manager is
\* returned, which leaves the caller with the manager and the file it had.
SaveOutcomes == IF impl = "haskell" \/ stale >= MaxStale THEN {TRUE} ELSE BOOLEAN

\* The failed saves the file is behind by, after one more save.
Behind(ok) == IF ok THEN 0 ELSE stale + 1

\* The file after a save of the list.
Write(ts, ok) == IF ok THEN save_tasks(ts) ELSE file

Saved(ok) == IF ok THEN "written" ELSE "failed"

\* load_tasks / loadTasks, called by the constructor: no file, or a file that does
\* not parse, gives the empty manager; else the list, and next_id past its largest id.
load_tasks(f) ==
    IF f.state # "json" \/ f.tasks = <<>>
    THEN [tasks |-> <<>>, next_id |-> FirstId]
    ELSE LET ts == [k \in DOMAIN f.tasks |-> from_json(f.tasks[k])]
         IN  [tasks |-> ts, next_id |-> MaxIdOf(ts) + 1]

Called(name, id, found, saved) ==
    [op |-> name, id |-> id, found |-> found, before |-> next_id, saved |-> saved]

TaskInit ==
    /\ InitCommon
    /\ sourceValid = TRUE
    /\ pc = "loop_top"
    /\ clock = 0
    /\ deployed = FALSE
    /\ addresses = [k \in 1..MainPool |-> k]
    /\ NoAmount
    /\ impl \in Impls
    /\ file \in {Absent, Empty}
    /\ tasks = load_tasks(file).tasks
    /\ next_id = load_tasks(file).next_id
    /\ lastOp = NoOp
    /\ stale = 0

\* Mutant of AddTask: next_id is left as it was.
AddTaskKeepsNextId ==
    /\ Len(tasks) < MaxTasks
    /\ next_id <= MaxId
    /\ \E desc \in Descriptions : tasks' = Insert(tasks, Task(next_id, desc))
    /\ \E ok \in SaveOutcomes :
         /\ file' = Write(tasks', ok)
         /\ stale' = Behind(ok)
         /\ lastOp' = Called("add", next_id, TRUE, Saved(ok))
    /\ UNCHANGED <<impl, next_id, deployVars>>

\* add_task / addTask
AddTask ==
    /\ Len(tasks) < MaxTasks
    /\ next_id <= MaxId
    /\ \E desc \in Descriptions : tasks' = Insert(tasks, Task(next_id, desc))
    /\ next_id' = next_id + 1
    /\ \E ok \in SaveOutcomes :
         /\ file' = Write(tasks', ok)
         /\ stale' = Behind(ok)
         /\ lastOp' = Called("add", next_id, TRUE, Saved(ok))
    /\ UNCHANGED <<impl, deployVars>>

\* Mutant of MarkDone: the flag is flipped.
MarkFlipped(t) == [t EXCEPT !.completed = ~@]

\* it->completed = true / task.completed = true / t { completed = True }
MarkDone(t) == [t EXCEPT !.completed = TRUE]

\* complete_task / completeTask
CompleteTask ==
    /\ \E id \in Ids :
         LET k == FirstIndex(tasks, id)
         IN  /\ IF k # 0
                THEN /\ tasks' = [tasks EXCEPT ![k] = MarkDone(@)]
                     /\ \E ok \in SaveOutcomes :
                          /\ file' = Write(tasks', ok)
                          /\ stale' = Behind(ok)
                          /\ lastOp' = Called("complete", id, TRUE, Saved(ok))
                ELSE /\ UNCHANGED <<tasks, file, stale>>
                     /\ lastOp' = Called("complete", id, FALSE, "none")
    /\ UNCHANGED <<impl, next_id, deployVars>>

\* Mutant of DeleteTask: the file is saved when no task has the id, too.
DeleteTaskAlwaysSaves ==
    /\ \E id \in Ids :
         LET k == FirstIndex(tasks, id)
         IN  /\ tasks' = IF k # 0 THEN Remove(tasks, k) ELSE tasks
             /\ \E ok \in SaveOutcomes :
                  /\ file' = Write(tasks', ok)
                  /\ stale' = Behind(ok)
                  /\ lastOp' = Called("delete", id, k # 0, Saved(ok))
    /\ UNCHANGED <<impl, next_id, deployVars>>

\* delete_task / deleteTask
DeleteTask ==
    /\ \E id \in Ids :
         LET k == FirstIndex(tasks, id)
         IN  /\ IF k # 0
                THEN /\ tasks' = Remove(tasks, k)
                     /\ \E ok \in SaveOutcomes :
                          /\ file' = Write(tasks', ok)
                          /\ stale' = Behind(ok)
                          /\ lastOp' = Called("delete", id, TRUE, Saved(ok))
                ELSE /\ UNCHANGED <<tasks, file, stale>>
                     /\ lastOp' = Called("delete", id, FALSE, "none")
    /\ UNCHANGED <<impl, next_id, deployVars>>

\* Mutant of ClearTasks: next_id is left as it was.
ClearTasksKeepsNextId ==
    /\ tasks' = <<>>
    /\ \E ok \in SaveOutcomes :
         /\ file' = Write(tasks', ok)
         /\ stale' = Behind(ok)
         /\ lastOp' = Called("clear", 0, TRUE, Saved(ok))
    /\ UNCHANGED <<impl, next_id, deployVars>>

\* clear_tasks / clearTasks
ClearTasks ==
    /\ tasks' = <<>>
    /\ next_id' = FirstId
    /\ \E ok \in SaveOutcomes :
         /\ file' = Write(tasks', ok)
         /\ stale' = Behind(ok)
         /\ lastOp' = Called("clear", 0, TRUE, Saved(ok))
    /\ UNCHANGED <<impl, deployVars>>

\* TaskManager(fp) / TaskManager::new / loadTasks fp: the next run of the command
\* line, or a second manager on the same file (the persistence tests)
NewManager ==
    /\ tasks' = load_tasks(file).tasks
    /\ next_id' = load_tasks(file).next_id
    /\ lastOp' = Called("load", 0, file.state = "json", "none")
    /\ UNCHANGED <<impl, file, stale, deployVars>>

TaskNext == AddTask \/ CompleteTask \/ DeleteTask \/ ClearTasks \/ NewManager

TaskSpec == TaskInit /\ [][TaskNext]_vars

TaskTypeOK ==
    /\ impl \in Impls
    /\ Len(tasks) <= MaxTasks
    /\ next_id \in FirstId..(MaxId + 1)
    /\ \A k \in DOMAIN tasks : tasks[k].id \in 1..MaxId
    /\ file.state \in {"absent", "empty", "json"}

(***************************************************************************)
(* The transfer amount of line 156, alone: a pure function of the random   *)
(* draw.                                                                   *)
(***************************************************************************)
RandomSteps == 128     \* Math.random() is k / RandomSteps for k in 0..RandomSteps - 1
AmountRange == 50      \* Math.random() * 50
Decimals == 18         \* ethers.parseUnits(..., 18)

\* Math.floor(x) for x = num / den, num >= 0
Floor(num, den) == num \div den

\* Mutant of Units: the draw is scaled to 0..50.
UnitsFromZero(k) == Floor(k * (AmountRange + 1), RandomSteps)

\* Math.floor(Math.random() * 50) + 1
Units(k) == Floor(k * AmountRange, RandomSteps) + 1

\* ethers.parseUnits(n.toString(), 18): n units of 10^18
parseUnits(n, decimals) == [units |-> n, decimals |-> decimals]

AmountInit ==
    /\ InitCommon
    /\ sourceValid = TRUE
    /\ pc = "loop_top"
    /\ clock = 0
    /\ deployed = FALSE
    /\ addresses = [k \in 1..MainPool |-> k]
    /\ NoTaskManager
    /\ draw \in 0..(RandomSteps - 1)
    /\ amount = NotDrawn

\* line 156: const amount = ethers.parseUnits((Math.floor(Math.random() * 50) + 1)
\* .toString(), 18), followed by the draw of the loop's next iteration
DrawAmount ==
    /\ amount' = parseUnits(Units(draw), Decimals)
    /\ draw' \in {draw, (draw + 1) % RandomSteps}
    /\ UNCHANGED <<taskVars, pc, cycleVars, slotVars, sendVars, timeVars, procVars,
                   loopVars, cycleXfers, inflight, lastWait, log>>

AmountSpec == AmountInit /\ [][DrawAmount]_vars

(***************************************************************************)
(* Claims                                                                  *)
(***************************************************************************)
RECURSIVE SumTo(_, _)
SumTo(f, n) == IF n = 0 THEN 0 ELSE f[n] + SumTo(f, n - 1)

SlotsBegun == SumTo(attempts, NumWallets)
SlotOpen == InSlot /\ slotLogs = 0
PassOver == Phase = "WAITING" \/ (pc = "loop_top" /\ now # -1)

\* C1: per-slot error isolation.  Whatever fails in a slot, one pass attempts
\* BatchSize slots for every wallet, wallets in list order, and logs exactly one
\* outcome per slot; only a failure of name generation abandons a pass.
C1_SlotIsolation ==
    /\ visited = [k \in 1..Len(visited) |-> k]
    /\ \A w \in wallets :
         /\ attempts[w] <= BatchSize
         /\ attempts[w] > 0 =>
              /\ w <= Len(visited)
              /\ \A v \in 1..(w - 1) : attempts[v] = BatchSize
    /\ slotLogs <= 1
    /\ pc # "exited" => nOk + nFail + (IF SlotOpen THEN 1 ELSE 0) = SlotsBegun
    /\ PassOver =>
         /\ \A w \in wallets : attempts[w] = BatchSize
         /\ visited = [k \in 1..NumWallets |-> k]
         /\ nOk + nFail = NumWallets * BatchSize
    /\ pc = "rejected" => fatal = "GenerationExhausted"

\* C1 witness: a pass is over in which slots failed and slots succeeded.
C1_Witness == Phase = "WAITING" /\ nFail > 0 /\ nOk > 0

\* C2: the distribution runs only for a slot whose deployment succeeded; no transfer
\* is issued in a slot that failed; distribution runs equal successful deployments.
C2_DistributeOnlyDeployed ==
    /\ pc \in {"send", "xfer_submit", "xfer_wait"} =>
         deployed /\ failKind = "none" /\ submits = 1
    /\ nXfer > 0 => deployed /\ failKind = "none"
    /\ failKind # "none" => ~deployed /\ nXfer = 0 /\ todo = <<>>
    /\ nDist <= nOk
    /\ pc \notin {"send", "exited"} => nDist = nOk

\* C2 witness: a pass is over with failed and distributed slots.
C2_Witness == Phase = "WAITING" /\ nFail > 0 /\ nDist > 0 /\ nDist = nOk

C3_NotEarly == (pc = "loop_top" /\ now # -1) => clock - now >= Period

C3_LeaveWaiting ==
    (pc = "wait_check" /\ pc' \notin {"wait_check", "exited"}) =>
        ((pc' = "loop_top") <=> (clock - now >= Period))

\* C3: a cycle never starts early.  The instant a new cycle reads the clock is at
\* least one period after the start `now` of the previous cycle, and the wait is
\* left exactly when the clock has reached now + Period.
C3_NeverEarly == []C3_NotEarly /\ [][C3_LeaveWaiting]_vars

\* C3 witness: the next cycle starts exactly one period after the start of a cycle
\* that counted down.
C3_Witness == pc = "loop_top" /\ nextRun # -1 /\ clock - now = Period

\* C4: the loop has no terminal state: every cycle start is eventually followed by
\* the start of the next cycle.
C4_AlwaysAnotherCycle == (pc = "gen_names" /\ visited = <<>>) ~> (pc = "loop_top")

C5_PassReturns == pc = "slot" /\ ~(i < Len(names)) /\ wIdx = NumWallets

\* C5: the scheduler starts in RUNNING-CYCLE, with no wait before the first cycle,
\* and goes to WAITING whenever the pass over the wallets returns, whatever failed.
C5_StartsRunning ==
    /\ pc = "loop_top" /\ nextRun = -1
    /\ [](now = -1 => Phase # "WAITING")
    /\ [][(C5_PassReturns /\ pc' # "exited") => pc' = "calc_next"]_vars
    /\ [][(pc = "calc_next" /\ pc' # "exited") => pc' = "wait_check"]_vars

\* C5 witness: the scheduler waits after a pass in which every slot failed.
C5_Witness == Phase = "WAITING" /\ nFail = NumWallets * BatchSize

\* C6: the compiler is invoked at most once in the process lifetime.
C6_CompiledOnce == compileCalls <= 1

\* C7: a source that does not compile ends the process; the failure is never taken
\* as a failed slot.
C7_CompileFailureFatal == (compileCalls > 0 /\ ~sourceValid) => pc \in {"rejected", "exited"}

\* C8: a failure of name generation never ends the process.
C8_GenerationNotFatal == ~(pc \in {"rejected", "exited"} /\ fatal = "GenerationExhausted")

\* C9: below the threshold deployToken fails with nothing submitted; at or above the
\* threshold it goes on to submit; a submission always follows a balance query.
C9_BalanceGate ==
    /\ submits > 0 => balance >= MinBalance
    /\ pc \in {"submit", "confirm"} => balance >= MinBalance
    /\ (balance # -1 /\ balance < MinBalance) =>
         failKind = "funds" /\ submits = 0 /\ ~deployed
    /\ (balance >= MinBalance /\ pc # "exited") =>
         failKind # "funds" /\ (pc = "submit" \/ submits = 1)

\* C9 witness: a slot failed on a balance just below the threshold.
C9_Witness == failKind = "funds" /\ balance = MinBalance - 1 /\ pc = "pacing"

RunOver == deployed /\ pc = "pacing"

\* C10: a distribution run issues min(SampleSize, n) transfers, each to a position of
\* the pool, no position twice.
C10_Sample ==
    /\ sentTo \subseteq DOMAIN addresses
    /\ Cardinality(sentTo) = nXfer
    /\ nXfer <= Min(SampleSize, Len(addresses))
    /\ \A k \in 1..Len(todo) : todo[k] \in DOMAIN addresses
    /\ pc = "xfer_submit" => nXfer + Len(todo) = Min(SampleSize, Len(addresses))
    /\ pc = "xfer_wait" => nXfer + Len(todo) - 1 = Min(SampleSize, Len(addresses))
    /\ RunOver => nXfer = Min(SampleSize, Len(addresses))

\* C10 witness: a run over a pool larger than the sample is over.
C10_Witness == RunOver /\ Len(addresses) > SampleSize /\ nXfer = SampleSize

SampleCount == Min(SampleSize, Len(addresses))
InRun == pc \in {"xfer_submit", "xfer_wait"}

\* C11: per-recipient failure isolation.  However many transfers of a distribution
\* run fail, at submission or at confirmation, the run goes on to every sampled
\* recipient, attempts each exactly once (none again), and returns normally: the
\* slot stays the successful deployment it was logged as.
C11_TransferIsolation ==
    /\ nXferFail <= nXfer
    /\ nXferFail > 0 => deployed
    /\ (InRun \/ RunOver) => failKind = "none" /\ slotLogs = 1
    /\ pc = "xfer_submit" =>
         /\ \A k \in 1..Len(todo) : todo[k] \notin sentTo
         /\ nXfer + Len(todo) = SampleCount
    /\ pc = "xfer_wait" =>
         /\ Head(todo) \in sentTo
         /\ \A k \in 2..Len(todo) : todo[k] \notin sentTo
    /\ InRun => \A j, k \in 1..Len(todo) : todo[j] = todo[k] => j = k
    /\ RunOver => todo = <<>> /\ nXfer = SampleCount /\ Cardinality(sentTo) = SampleCount

\* C11 witness: a run over a full sample is over in which some transfers failed and
\* a later one succeeded.
C11_Witness ==
    /\ RunOver /\ nXfer = SampleSize
    /\ nXferFail > 1 /\ nXferFail < nXfer /\ lastXfer = "ok"
C12_PacedState == (pc \in {"slot", "gen_names"} /\ SlotsBegun > 0) => lastWait >= Pacing

C12_SlotEnds ==
    (pc = "pacing" /\ pc' # "exited") =>
        /\ pc' = "slot"
        /\ lastWait' >= Pacing
        /\ clock' >= Min(clock + Pacing, Cap)

C12_SlotBegins ==
    (pc # "compile" /\ pc' = "compile") =>
        /\ pc = "slot"
        /\ SlotsBegun > 0 => lastWait >= Pacing

\* C12: between every two consecutive deployment attempts the loop waits the pacing
\* delay: a slot that ended, deployed or failed, is followed by a wait of at least
\* Pacing seconds before anything else, and a slot after the first of a cycle begins
\* only after such a wait, in the same wallet or the next one.
C12_Pacing == []C12_PacedState /\ [][C12_SlotEnds]_vars /\ [][C12_SlotBegins]_vars

\* C12 witness: the first slot of the second wallet is about to begin after the
\* pacing delay that followed the failed last slot of the first wallet.
C12_Witness ==
    /\ pc = "slot" /\ wIdx = 2 /\ i = 0
    /\ failKind # "none" /\ attempts[1] = BatchSize
    /\ lastWait >= Pacing
SlotDone ==
    /\ slotLogs = 1
    /\ todo = <<>>
    /\ inflight = {}
    /\ deployed => nXfer = SampleCount
    /\ ~deployed => failKind # "none" /\ nXfer = 0

C13_InOrder ==
    /\ InSlot => attempts[wIdx] = i + 1
    /\ pc = "slot" => attempts[wIdx] = i
    /\ (pc = "slot" /\ i > 0) => SlotDone

C13_SlotBegins ==
    (pc # "compile" /\ pc' = "compile") =>
        /\ pc = "slot"
        /\ UNCHANGED <<wIdx, names, i>>
        /\ i > 0 => SlotDone

C13_NextIndex == (pc = "pacing" /\ pc' = "slot") => i' = i + 1 /\ UNCHANGED <<wIdx, names>>

\* C13: within one wallet the slots run strictly in generation order: the slots begun
\* are those of indices 0, 1, 2, ... in turn, and slot i + 1 begins only when slot i
\* has logged its outcome and, if it deployed, every transfer of its distribution run
\* has been made and has settled.
C13_SequentialSlots ==
    []C13_InOrder /\ [][C13_SlotBegins]_vars /\ [][C13_NextIndex]_vars

\* C13 witness: the second slot of a wallet is about to begin after a first slot that
\* deployed and made all its transfers, one of them failing.
C13_Witness ==
    /\ pc = "slot" /\ i = 1 /\ deployed
    /\ nXfer = SampleCount /\ nXfer > 1 /\ nXferFail > 0
Deployments(w) == {o \in inflight : o.wallet = w /\ o.op \in {"deploy", "waitForDeployment"}}

PendingAt ==
    CASE pc = "balance" -> {Op("getBalance")}
      [] pc = "submit" -> {Op("deploy")}
      [] pc = "confirm" -> {Op("waitForDeployment")}
      [] pc = "xfer_submit" -> {Op("transfer")}
      [] pc = "xfer_wait" -> {Op("tx.wait")}
      [] OTHER -> {}

\* C14: every chain operation is awaited before the next is issued: at most one is
\* pending at any time, it is the one the loop is suspended on, and no wallet has two
\* deployments in flight.
C14_OneOperationPending ==
    /\ Cardinality(inflight) <= 1
    /\ \A w \in wallets : Cardinality(Deployments(w)) <= 1
    /\ pc # "exited" => inflight = PendingAt

\* C14 witness: the confirmation of the second transfer of a run is the one pending
\* operation.
C14_Witness == pc = "xfer_wait" /\ nXfer = 2 /\ inflight = {Op("tx.wait")}
OneError(kind, about) ==
    /\ Len(log) = 1
    /\ log[1].level = "error" /\ log[1].kind = kind /\ log[1].about = about

ErrorsLogged(kind) == {k \in 1..Len(log) : log[k].level = "error" /\ log[k].kind = kind}

C15_SlotFails ==
    /\ (nFail' = nFail + 1) => OneError("slot", <<wIdx, i>>)' /\ failKind' # "none"
    /\ (failKind = "none" /\ failKind' # "none") => nFail' = nFail + 1
    /\ (ErrorsLogged("slot")' # {} /\ log' # log) => nFail' = nFail + 1

C15_TransferFails ==
    /\ (nXferFail' = nXferFail + 1) => \E to \in {Head(todo)} : OneError("transfer", <<to>>)'
    /\ (lastXfer' = "failed" /\ nXfer' + Len(todo') # nXfer + Len(todo)) =>
         nXferFail' = nXferFail + 1
    /\ (ErrorsLogged("transfer")' # {} /\ todo' # todo) => nXferFail' = nXferFail + 1

C15_Exits ==
    (pc # "exited" /\ pc' = "exited" /\ exitCode' # 0) =>
        /\ fatal # "none"
        /\ OneError("fatal", <<>>)'

\* C15: every failure produces a status event.  The step in which a slot fails writes
\* exactly one error event, naming the slot; the step in which a transfer fails
\* writes exactly one error event, naming the recipient; no error event is written
\* without a failure; and the process exits on a fault only in a step that writes the
\* fatal error event.
C15_FailuresLogged ==
    /\ [](Len(log) <= 1)
    /\ [](failKind # "none" => slotLogs = 1)
    /\ [][C15_SlotFails]_vars
    /\ [][C15_TransferFails]_vars
    /\ [][C15_Exits]_vars

\* C15 witness: the second failed transfer of a run has just been logged.
C15_Witness ==
    /\ nXferFail = 2 /\ lastXfer = "failed"
    /\ ErrorsLogged("transfer") # {}
C16_KeyHandled == (pc # "exited" /\ pc' = "exited" /\ fatal = "none") =>
    /\ exitCode' = 0
    /\ UNCHANGED <<inflight, cycleXfers, submits, nXfer, visited, attempts, now>>

C16_Terminal == pc = "exited" => UNCHANGED vars

\* C16: the shutdown keys end the process with exit code 0 in WAITING and in every
\* other state: the handler can run wherever the loop is suspended, in the countdown
\* as in a pending chain operation or a pacing delay; it exits with code 0 without
\* issuing anything; and after the exit nothing happens any more, so no chain
\* operation is issued and no cycle starts.
C16_ShutdownAnywhere ==
    /\ [](Awaiting => ENABLED Shutdown)
    /\ [](Phase = "WAITING" =>
            (pc = "pause" \/ ENABLED (Step /\ pc' \in {"wait_check", "pause", "loop_top"})))
    /\ [](exitCode = 0 <=> (pc = "exited" /\ fatal = "none"))
    /\ [][C16_KeyHandled]_vars
    /\ [][C16_Terminal]_vars

\* C16 witness: the process was shut down during the countdown.
C16_Witness ==
    /\ pc = "exited" /\ exitCode = 0
    /\ phaseAtExit = "WAITING" /\ nextRun # -1 /\ clock < nextRun
BetweenSlots == pc \in {"slot", "gen_names", "pacing", "calc_next", "wait_check", "pause"}

Added == lastOp'.op = "add" /\ lastOp' # lastOp

\* The task a call of add creates: the id is next_id before the call, not completed.
NewTask(desc) == [id |-> next_id, description |-> desc, completed |-> FALSE]

C18_Appended ==
    Added =>
        /\ next_id' = next_id + 1
        /\ \E desc \in Descriptions : tasks' = tasks \o <<NewTask(desc)>>

\* C18, as stated: after any sequence of operations, adding a task appends one task
\* whose id is next_id before the call and which is not completed, increases
\* next_id by one and leaves every existing task unchanged.
C18_AddAppends == [][C18_Appended]_vars

C18_Inserted ==
    Added =>
        /\ next_id' = next_id + 1
        /\ lastOp'.id = next_id
        /\ \E desc \in Descriptions :
             tasks' = IF impl = "haskell"
                      THEN <<NewTask(desc)>> \o tasks
                      ELSE tasks \o <<NewTask(desc)>>

\* C18, amended: after any sequence of operations, adding a task inserts exactly one
\* task, at the end of the list in the C++ and Rust managers and at the front of the
\* list in the Haskell manager; its id is next_id before the call and it is not
\* completed; next_id increases by one; every existing task is unchanged and the
\* existing tasks keep their relative order.
C18_AddInserts == [][C18_Inserted]_vars

\* C18 witness: the Haskell manager has just added a third task, in front of a
\* completed one, after a deletion.
C18_Witness ==
    /\ impl = "haskell" /\ lastOp.op = "add"
    /\ Len(tasks) = 3 /\ tasks[1].id = lastOp.id /\ tasks[1].id > Len(tasks)
    /\ ~tasks[1].completed /\ tasks[2].completed

Deleted == lastOp'.op = "delete" /\ lastOp'.found /\ lastOp' # lastOp

C19_Removed ==
    Deleted =>
        /\ next_id' = next_id
        /\ lastOp'.id \notin {tasks'[k].id : k \in DOMAIN tasks'}
        /\ \E k \in DOMAIN tasks :
             /\ tasks[k].id = lastOp'.id
             /\ Len(tasks') = Len(tasks) - 1
             /\ \A j \in DOMAIN tasks' : tasks'[j] = IF j < k THEN tasks[j] ELSE tasks[j + 1]

\* C19: deleting an existing id removes exactly the task with that id; the other
\* tasks keep their ids, fields and relative order; next_id is unchanged.
C19_DeleteExactlyOne == [][C19_Removed]_vars

\* C19 witness: a task between two others has just been deleted.
C19_Witness ==
    /\ lastOp.op = "delete" /\ lastOp.found /\ Len(tasks) = 2
    /\ \E j, k \in DOMAIN tasks : tasks[j].id < lastOp.id /\ lastOp.id < tasks[k].id
    /\ \E k \in DOMAIN tasks : tasks[k].completed

C20_Cleared == lastOp.op = "clear" => tasks = <<>> /\ next_id = 1

C20_NextAdd ==
    (lastOp.op = "clear" /\ Added) =>
        /\ lastOp'.id = 1
        /\ Len(tasks') = 1 /\ tasks'[1].id = 1

\* C20: from any reachable state, clear leaves the task list empty and next_id 1, so
\* the task added next gets id 1.
C20_ClearResets == []C20_Cleared /\ [][C20_NextAdd]_vars

\* C20 witness: a list of tasks whose next id was beyond 2 has just been cleared.
C20_Witness ==
    /\ lastOp.op = "clear" /\ lastOp.before > 2
    /\ tasks = <<>> /\ next_id = 1 /\ file.tasks = <<>>
Mutating(o) == o.op \in {"add", "clear"} \/ (o.op \in {"complete", "delete"} /\ o.found)

\* n is one more than the largest id of the list, 1 for the empty list.
PastLargestId(ts, n) ==
    /\ \A k \in DOMAIN ts : ts[k].id < n
    /\ IF ts = <<>> THEN n = 1 ELSE \E k \in DOMAIN ts : ts[k].id + 1 = n

C21_Reloads == (Mutating(lastOp) /\ lastOp'.op = "load") =>
    /\ tasks' = tasks
    /\ PastLargestId(tasks, next_id')

C21_ReloadsWritten == (Mutating(lastOp) /\ lastOp.saved = "written" /\ lastOp'.op = "load") =>
    /\ tasks' = tasks
    /\ PastLargestId(tasks, next_id')

C21_OnDisk == (Mutating(lastOp) /\ lastOp.saved = "written") =>
    /\ file.state = "json"
    /\ Len(file.tasks) = Len(tasks)
    /\ \A k \in DOMAIN tasks :
         /\ file.tasks[k].id = tasks[k].id
         /\ file.tasks[k].description = tasks[k].description
         /\ (file.tasks[k].completed = "true") <=> tasks[k].completed

CompleteFound == lastOp'.op = "complete" /\ lastOp'.found

C22_Completes ==
    CompleteFound =>
        /\ next_id' = next_id
        /\ Len(tasks') = Len(tasks)
        /\ \E k \in DOMAIN tasks :
             /\ tasks[k].id = lastOp'.id
             /\ tasks'[k].completed
             /\ tasks'[k].id = tasks[k].id
             /\ tasks'[k].description = tasks[k].description
             /\ \A j \in DOMAIN tasks : j # k => tasks'[j] = tasks[j]

C22_Again ==
    (CompleteFound /\ \E k \in DOMAIN tasks : tasks[k].id = lastOp'.id /\ tasks[k].completed) =>
        /\ tasks' = tasks
        /\ next_id' = next_id

\* C22: completing an existing id sets the completed flag of that task and changes
\* no other task, no other field and not next_id; completing an id whose task is
\* completed already leaves the list and next_id as they are.
C22_CompleteIdempotent == [][C22_Completes]_vars /\ [][C22_Again]_vars

\* C22 witness: a completed task, written to the file as completed, has been
\* completed once more (the save of the second call failed, so the file is that of
\* before the call) next to a task that is not completed.
C22_Witness ==
    /\ lastOp.op = "complete" /\ lastOp.found /\ lastOp.saved = "failed"
    /\ \E k \in DOMAIN file.tasks :
         file.tasks[k].id = lastOp.id /\ file.tasks[k].completed = "true"
    /\ \E j \in DOMAIN tasks : ~tasks[j].completed
C23_AtMostOne ==
    /\ submits \in {0, 1}
    /\ deployed => submits = 1
    /\ pc = "confirm" => submits = 1
    /\ failKind \in {"submit", "confirm"} =>
         submits = 1 /\ ~deployed /\ ~(InSlot /\ pc # "pacing")
    /\ \A w \in wallets : attempts[w] <= BatchSize

C23_Submission == submits' > submits => pc = "submit" /\ submits = 0 /\ failKind = "none"

C23_NoRetry ==
    (pc \in {"submit", "confirm"} /\ failKind' # "none") =>
        pc' = "pacing" /\ submits' = 1 /\ UNCHANGED <<wIdx, i, attempts>>

\* C23: a deployment slot submits at most one contract-creation transaction and a
\* slot that deployed submitted exactly one; after a rejected submission or a failed
\* confirmation wait the slot ends (pacing delay, next index) with its one
\* submission, and a cycle has no more than BatchSize slots for a wallet, so nothing
\* is submitted again for the slot within it or later in the cycle.
C23_OneSubmission == []C23_AtMostOne /\ [][C23_Submission]_vars /\ [][C23_NoRetry]_vars

\* C23 witness: a slot ended on a failed confirmation wait, with its one submission,
\* in a cycle in which another slot deployed.
C23_Witness == pc = "pacing" /\ failKind = "confirm" /\ submits = 1 /\ nOk > 0
AsLoaded == addresses = [k \in 1..Len(addresses) |-> k]

\* C24: the recipient pool is never modified: no step changes it, so after any
\* number of distribution runs and cycles it holds the addresses it was loaded with,
\* in the order it was loaded in; the sample is taken from a copy.
C24_PoolUnchanged == []AsLoaded /\ [][addresses' = addresses]_vars

\* C24 witness: a distribution run over the whole pool is over in a cycle that
\* followed a countdown.
C24_Witness ==
    /\ RunOver /\ nextRun # -1 /\ now = 0
    /\ sentTo = DOMAIN addresses /\ Len(addresses) > 1
\* C25: every transfer amount is a whole number of token units from 1 to 50, scaled
\* by 10^18: for every draw r in [0, 1), floor(r * 50) + 1 is in 1..50.
C25_AmountRange ==
    amount # NotDrawn =>
        /\ amount.units \in 1..50
        /\ amount.decimals = 18

\* C25 witness: the largest draw below 1 gave the amount of 50 units.
C25_Witness == amount = [units |-> 50, decimals |-> 18] /\ draw = 0

C26_Begins ==
    (pc = "calc_next" /\ pc' = "wait_check") =>
        countdown' = <<>> /\ clock' = clock /\ nextRun' = now + Period

C26_NoCountdown ==
    (pc = "wait_check" /\ countdown = <<>> /\ clock - now >= Period) =>
        pc' = "loop_top" /\ countdown' = <<>> /\ clock' = clock

C26_FreshStart ==
    (pc = "loop_top" /\ pc' = "gen_names") => now' = clock' /\ countdown' = <<>>

\* C26: a wait begins with nothing shown, at the instant the cycle ended; if the
\* cycle took the period or longer, the wait is left for the loop top at that same
\* instant with no countdown shown and no pause, and the cycle that starts there
\* takes the clock reading of its own start as its start time.
C26_LateCycle ==
    [][C26_Begins]_vars /\ [][C26_NoCountdown]_vars /\ [][C26_FreshStart]_vars

\* C26 witness: a cycle that took longer than the period is back at the loop top
\* with no countdown shown.
C26_Witness ==
    pc = "loop_top" /\ nextRun # -1 /\ countdown = <<>> /\ clock - now > Period

C27_Shown == countdown # <<>> => countdown[1] >= 0 /\ countdown[1] < Period

C27_Event ==
    /\ pc' = "pause" /\ pc # "pause" =>
          pc = "wait_check" /\ countdown' = <<nextRun - clock'>>
    /\ countdown' # countdown /\ countdown' # <<>> => pc' = "pause"

C27_NonIncreasing ==
    (countdown # <<>> /\ countdown' # <<>>) => countdown'[1] <= countdown[1]

\* C27: a remaining time is shown before each pause of the wait and at no other
\* step; it is nextRun minus the clock reading it was computed from, it is at least
\* 0 and less than the period, and it does not increase from one to the next.
C27_Countdown ==
    []C27_Shown /\ [][C27_Event]_vars /\ [][C27_NonIncreasing]_vars

\* C27 without the lower bound: what holds of the countdown when the clock may pass
\* nextRun between the two readings of an iteration.
C27_CountdownBelowPeriod ==
    /\ [](countdown # <<>> => countdown[1] < Period)
    /\ [][C27_Event]_vars /\ [][C27_NonIncreasing]_vars

\* The countdown has shown a time below zero.
C27_Wrapped == pc = "pause" /\ countdown # <<>> /\ countdown[1] < 0

\* C28: in every state of a task manager the ids of the stored tasks are pairwise
\* distinct, and each is at least 1 and less than next_id.
C28_IdInvariant ==
    /\ \A j, k \in DOMAIN tasks : j # k => tasks[j].id # tasks[k].id
    /\ \A k \in DOMAIN tasks : tasks[k].id >= 1 /\ tasks[k].id < next_id

\* C28 witness: a task was added to a list from which a task of a smaller id had
\* been deleted, so the ids have a gap.
C28_Witness ==
    /\ lastOp.op = "add" /\ Len(tasks) >= 2
    /\ \E n \in 1..(next_id - 1) : n \notin IdsOf(tasks)

C29_NotFound ==
    (/\ lastOp' # lastOp
     /\ lastOp'.op \in {"complete", "delete"}
     /\ lastOp'.id \notin IdsOf(tasks)) =>
        /\ tasks' = tasks /\ next_id' = next_id
        /\ file' = file /\ stale' = stale
        /\ ~lastOp'.found /\ lastOp'.saved = "none"

\* C29: a complete or a delete called with an id that no stored task has leaves
\* the list and next_id as they are, does not save (the file is not written and no
\* save fails), and ends as 'not found'.
C29_UnknownId == [][C29_NotFound]_vars

\* C29 witness: a delete found no task of its id in a list that holds tasks, while
\* the file is behind the list by a save that failed.
C29_Witness ==
    /\ lastOp.op = "delete" /\ ~lastOp.found /\ lastOp.saved = "none"
    /\ tasks # <<>> /\ lastOp.id \notin IdsOf(tasks)
    /\ stale > 0 /\ file # save_tasks(tasks)
====
